---- MODULE Spec2Model ----
(***************************************************************************)
(* A model of the extraction tool src/data_processor.py: the Identifier    *)
(* Parser (extract_sequence_id), the Parameter Extractor                   *)
(* (extract_mano_data), the Geometry Resolver                              *)
(* (compute_mano_3d_coordinates), the Storage Writer                       *)
(* (save_3d_coordinates_to_file) and the orchestrator main().              *)
(*                                                                         *)
(* Text is a sequence of one-character strings.  Python's None is NULL.    *)
(***************************************************************************)
EXTENDS Integers, Sequences, FiniteSets, TLC

VARIABLES
    pc,              \* position of main() / of the driver of the specification
    pickle_files,    \* main: glob("anno_preview/*.pkl")
    selected_file,   \* main: pickle_files[choice]
    seq,             \* main: extract_sequence_id(basename(selected_file))
    frame_id_list,   \* main: loaded from the archive
    raw_mano,        \* main: loaded from the archive
    idx,             \* position of the for-loop: of main's batch loop in
                     \* frame_id_list, of the walker's loop in frame_dirs (1-based)
    mano_data,       \* main: result of extract_mano_data for the current frame
    processed_count, \* main: running success count
    disk,            \* the storage tree under base_dir
    console,         \* what has been printed, in order
    manoCalls,       \* invocations of the hand-deformation capability, in order
    prompts,         \* number of interactive prompts answered so far
    parts,           \* parser driver: the pieces the file name was built from
    seqResult,       \* parser driver: what extract_sequence_id returned
    lastCall,        \* writer driver: the last Storage Writer call and how it ended
    writes,          \* writer driver: number of Storage Writer calls made
    archive,         \* the content of the file main passes to load_pickle_data
    obj_list,        \* main: loaded from the archive
    user_input,      \* main: the last answer to the interactive prompt
    frame_dirs       \* list_frames_in_sequence: the sorted frame directories

vars == <<pc, pickle_files, selected_file, seq, frame_id_list, raw_mano, idx,
          mano_data, processed_count, disk, console, manoCalls, prompts,
          parts, seqResult, lastCall, writes, archive, obj_list, user_input, frame_dirs>>

----------------------------------------------------------------------------
(* Characters and text *)

DIGITS == {"0", "1", "2", "3", "4", "5", "6", "7", "8", "9"}
UPPER == {"A", "B", "C", "D", "E", "F", "G", "H", "I", "J", "K", "L", "M",
          "N", "O", "P", "Q", "R", "S", "T", "U", "V", "W", "X", "Y", "Z"}
HEXLOWER == {"a", "b", "c", "d", "e", "f"} \cup DIGITS

RECURSIVE Concat(_)
Concat(ss) == IF ss = <<>> THEN <<>> ELSE Head(ss) \o Concat(Tail(ss))

----------------------------------------------------------------------------
(* Identifier Parser: re.search(pattern, filename), group(1) *)

\* One pattern item: a character class repeated min..max times (max = -1: no
\* upper limit), grp: the item is capture group 1.
Item(cls, min, max, grp) == [cls |-> cls, min |-> min, max |-> max, grp |-> grp]
Lit(c) == Item({c}, 1, 1, FALSE)
Rep(cls, n) == Item(cls, n, n, FALSE)
Plus(cls) == Item(cls, 1, -1, FALSE)
Dash == Lit("-")

\* r'scene_\d+__[A-Z]\d+\+\+seq__([a-f0-9]+)__\d{4}-\d{2}-\d{2}-\d{2}-\d{2}-\d{2}'
\* with the two characters before seq__ and the class of the group left open.
PatternWith(c1, c2, tokenCls) ==
    <<Lit("s"), Lit("c"), Lit("e"), Lit("n"), Lit("e"), Lit("_"), Plus(DIGITS),
      Lit("_"), Lit("_"), Item(UPPER, 1, 1, FALSE), Plus(DIGITS),
      Lit(c1), Lit(c2), Lit("s"), Lit("e"), Lit("q"), Lit("_"), Lit("_"),
      Item(tokenCls, 1, -1, TRUE),
      Lit("_"), Lit("_"),
      Rep(DIGITS, 4), Dash, Rep(DIGITS, 2), Dash, Rep(DIGITS, 2), Dash,
      Rep(DIGITS, 2), Dash, Rep(DIGITS, 2), Dash, Rep(DIGITS, 2)>>

\* The pattern with a group of letters a-f only: ([a-f]+)
PatternLettersOnly == PatternWith("+", "+", {"a", "b", "c", "d", "e", "f"})
\* The pattern with __seq__ for \+\+seq__
PatternUnderscoreMarker == PatternWith("_", "_", HEXLOWER)

pattern == PatternWith("+", "+", HEXLOWER)

NoMatch == [ok |-> FALSE, group |-> <<>>]

\* The longest run of characters of cls in s from position i, at most cap
\* (cap = -1: no limit).
RECURSIVE MaxRun(_, _, _, _)
MaxRun(s, i, cls, cap) ==
    IF cap = 0 \/ i > Len(s) \/ s[i] \notin cls
    THEN 0
    ELSE 1 + MaxRun(s, i + 1, cls, IF cap = -1 THEN -1 ELSE cap - 1)

\* Backtracking match of items k.. of pat at position i of s: a greedy item
\* takes the longest run first and gives characters back one at a time.
RECURSIVE MatchFrom(_, _, _, _)
RECURSIVE TryCount(_, _, _, _, _)
MatchFrom(pat, s, i, k) ==
    IF k > Len(pat)
    THEN [ok |-> TRUE, group |-> <<>>]
    ELSE TryCount(pat, s, i, k, MaxRun(s, i, pat[k].cls, pat[k].max))

TryCount(pat, s, i, k, n) ==
    IF n < pat[k].min
    THEN NoMatch
    ELSE LET rest == MatchFrom(pat, s, i + n, k + 1)
         IN  IF rest.ok
             THEN IF pat[k].grp
                  THEN [ok |-> TRUE, group |-> SubSeq(s, i, i + n - 1)]
                  ELSE rest
             ELSE TryCount(pat, s, i, k, n - 1)

\* re.search: the match at the leftmost position that has one.
re_search(pat, s) ==
    LET starts == {i \in 1..(Len(s) + 1) : MatchFrom(pat, s, i, 1).ok}
    IN  IF starts = {}
        THEN NoMatch
        ELSE MatchFrom(pat, s, CHOOSE i \in starts : \A j \in starts : i <= j, 1)

\* The result is [found, id]: found = FALSE is Python's None.
extract_sequence_id(filename) ==
    LET match == re_search(pattern, filename)
    IN  IF match.ok
        THEN [found |-> TRUE, id |-> match.group]
        ELSE [found |-> FALSE, id |-> <<>>]

----------------------------------------------------------------------------
(* Parser driver: file names built from pieces, valid and invalid *)

T_scene == <<"s", "c", "e", "n", "e", "_">>
T_marker == <<"+", "+", "s", "e", "q", "_", "_">>
T_sep == <<"_", "_">>
T_stamp == <<"2", "0", "2", "4", "-", "0", "1", "-", "0", "2", "-",
             "0", "3", "-", "0", "4", "-", "0", "5">>
T_pkl == <<".", "p", "k", "l">>
T_token == <<"1", "a", "2", "b", "3", "c", "4", "d">>

PrefixChoices == {<<>>, <<"x">>}
SceneNumChoices == {<<"0", "1">>, <<"7">>, <<>>}
LetterChoices == {<<"A">>, <<"Z">>, <<"b">>}
ObjNumChoices == {<<"0", "0", "1">>, <<>>}
MarkerChoices == {T_marker, <<"_", "_", "s", "e", "q", "_", "_">>,
                  <<"+", "+", "s", "e", "q", "_">>}
TokenChoices == {T_token, <<"f">>, <<"0", "9">>, <<>>, <<"1", "A">>,
                 <<"g", "1">>, <<"a", "_", "b">>}
SepChoices == {T_sep, <<"_">>}
StampChoices == {T_stamp,
                 <<"2", "0", "2", "4", "-", "1", "-", "0", "2", "-",
                   "0", "3", "-", "0", "4", "-", "0", "5">>,
                 <<"2", "0", "2", "4">>}
SuffixChoices == {<<>>, T_pkl}

PartsChoices ==
    [prefix : PrefixChoices, sceneNum : SceneNumChoices, letter : LetterChoices,
     objNum : ObjNumChoices, marker : MarkerChoices, token : TokenChoices,
     sep : SepChoices, stamp : StampChoices, suffix : SuffixChoices]

BuildName(p) ==
    Concat(<<p.prefix, T_scene, p.sceneNum, T_sep, p.letter, p.objNum,
             p.marker, p.token, p.sep, p.stamp, p.suffix>>)

NoParts ==
    [prefix |-> <<>>, sceneNum |-> <<>>, letter |-> <<>>, objNum |-> <<>>,
     marker |-> <<>>, token |-> <<>>, sep |-> <<>>, stamp |-> <<>>,
     suffix |-> <<>>]

----------------------------------------------------------------------------
(* Values *)

\* A printed line: what it says and the number it reports.
Line(msg, arg) == <<msg, arg>>

\* Python's None, for a pose/shape/translation field.  A field that is set
\* holds a positive number naming its array.
NULL == 0
\* A field value the hand-deformation capability raises on (malformed input).
BAD == -1

FieldNames == {"rh__pose_coeffs", "lh__pose_coeffs", "rh__tsl", "lh__tsl",
               "rh__betas", "lh__betas"}

\* dict.get(key, None)
Get(d, key) == IF key \in DOMAIN d THEN d[key] ELSE NULL

NoData == [kind |-> "", side |-> "", pose |-> NULL, shape |-> NULL]
\* An array-valued field of a MANOOutput: none = it is None; grad = it is a
\* tensor attached to a computation graph (it has .detach); data = its numbers.
NoneArr == [none |-> TRUE, grad |-> FALSE, data |-> NoData]
Tensor(kind, side, pose, shape) ==
    [none |-> FALSE, grad |-> TRUE,
     data |-> [kind |-> kind, side |-> side, pose |-> pose, shape |-> shape]]

NoOutput ==
    [present |-> FALSE, vertices |-> NoneArr, joints |-> NoneArr,
     transforms_abs |-> NoneArr]
NoCoords == [lh_output |-> NoOutput, rh_output |-> NoOutput]

\* The value of mano_data in main: None, or the dict extract_mano_data built
\* (has3d: the key '3d_coordinates' is in it).
NoneData == [tag |-> "none", fields |-> [k \in FieldNames |-> NULL],
             has3d |-> FALSE, coords |-> NoCoords]

----------------------------------------------------------------------------
(* Geometry Resolver *)

\* ManoLayer(rot_mode='quat', side=side)(pose, shape): the external
\* capability.  It returns for a pose and a shape that are both set and well
\* formed, and raises otherwise.
ManoLayerRaises(pose, shape) == pose = NULL \/ pose = BAD \/ shape = NULL \/ shape = BAD

ManoLayerOutput(side, pose, shape) ==
    [present |-> TRUE,
     vertices |-> Tensor("vertices", side, pose, shape),
     joints |-> Tensor("joints", side, pose, shape),
     transforms_abs |-> Tensor("transforms_abs", side, pose, shape)]

Call(side, pose, shape) == [side |-> side, pose |-> pose, shape |-> shape]

\* compute_mano_3d_coordinates with a resolver that keeps the side that
\* succeeded (a per-side try block).
ComputePerSide(fields) ==
    LET lh_pose == fields["lh__pose_coeffs"]
        lh_shape == fields["lh__betas"]
        rh_pose == fields["rh__pose_coeffs"]
        rh_shape == fields["rh__betas"]
        lhOk == ~ManoLayerRaises(lh_pose, lh_shape)
        rhOk == ~ManoLayerRaises(rh_pose, rh_shape)
    IN  [ok |-> lhOk \/ rhOk,
         calls |-> <<Call("left", lh_pose, lh_shape), Call("right", rh_pose, rh_shape)>>,
         out |-> IF lhOk /\ rhOk THEN <<>> ELSE <<Line("mano_error", 0)>>,
         results |->
            [lh_output |-> IF lhOk THEN ManoLayerOutput("left", lh_pose, lh_shape)
                           ELSE NoOutput,
             rh_output |-> IF rhOk THEN ManoLayerOutput("right", rh_pose, rh_shape)
                           ELSE NoOutput]]

\* The result is [ok, results, calls, out]: ok = FALSE is the None returned
\* from the except branch; calls are the capability invocations made, out the
\* error line printed (the "After ..." trace lines are left out).  The left
\* hand is resolved first, inside the one try block.
compute_mano_3d_coordinates(fields) ==
    LET lh_pose == fields["lh__pose_coeffs"]
        lh_shape == fields["lh__betas"]
        rh_pose == fields["rh__pose_coeffs"]
        rh_shape == fields["rh__betas"]
    IN  IF ManoLayerRaises(lh_pose, lh_shape)
        THEN [ok |-> FALSE, results |-> NoCoords,
              calls |-> <<Call("left", lh_pose, lh_shape)>>,
              out |-> <<Line("mano_error", 0)>>]
        ELSE IF ManoLayerRaises(rh_pose, rh_shape)
        THEN [ok |-> FALSE, results |-> NoCoords,
              calls |-> <<Call("left", lh_pose, lh_shape),
                          Call("right", rh_pose, rh_shape)>>,
              out |-> <<Line("mano_error", 0)>>]
        ELSE [ok |-> TRUE,
              results |-> [lh_output |-> ManoLayerOutput("left", lh_pose, lh_shape),
                           rh_output |-> ManoLayerOutput("right", rh_pose, rh_shape)],
              calls |-> <<Call("left", lh_pose, lh_shape),
                          Call("right", rh_pose, rh_shape)>>,
              out |-> <<>>]

----------------------------------------------------------------------------
(* Parameter Extractor *)

\* An entry of raw_mano is [isDict, fields]: isDict = FALSE is a value that is
\* no mapping (it has no .get), fields the keys the record holds.
\* The result is [raised, data, calls, out, raw_mano]: raw_mano is the mapping
\* the caller passed, as it is after the call.
ExtractWithoutMembershipTest(frame_id, rawMano) ==
    LET fields == IF frame_id \in DOMAIN rawMano
                  THEN [k \in FieldNames |-> Get(rawMano[frame_id].fields, k)]
                  ELSE [k \in FieldNames |-> NULL]
        geo == compute_mano_3d_coordinates(fields)
    IN  [raised |-> FALSE,
         data |-> [tag |-> "dict", fields |-> fields, has3d |-> geo.ok,
                   coords |-> geo.results],
         calls |-> geo.calls, out |-> geo.out, raw_mano |-> rawMano]

\* An extractor that works on the record of raw_mano itself (mano_data =
\* frame_mano) and attaches the geometry to it.
ExtractInPlace(frame_id, rawMano) ==
    IF frame_id \notin DOMAIN rawMano
    THEN [raised |-> FALSE, data |-> NoneData, calls |-> <<>>, out |-> <<>>,
          raw_mano |-> rawMano]
    ELSE LET frame_mano == rawMano[frame_id]
         IN  IF ~frame_mano.isDict
             THEN [raised |-> TRUE, data |-> NoneData, calls |-> <<>>, out |-> <<>>,
                   raw_mano |-> rawMano]
             ELSE LET fields == [k \in FieldNames |-> Get(frame_mano.fields, k)]
                      geo == compute_mano_3d_coordinates(fields)
                      attached ==
                          [k \in DOMAIN frame_mano.fields \cup {"3d_coordinates"} |->
                              IF k = "3d_coordinates" THEN 1 ELSE frame_mano.fields[k]]
                  IN  [raised |-> FALSE,
                       data |-> [tag |-> "dict", fields |-> fields,
                                 has3d |-> geo.ok, coords |-> geo.results],
                       calls |-> geo.calls, out |-> geo.out,
                       raw_mano |-> IF geo.ok
                                    THEN [rawMano EXCEPT ![frame_id].fields = attached]
                                    ELSE rawMano]

\* Lines 36-43 build a new dict and line 47 adds '3d_coordinates' to that
\* dict: nothing is assigned to raw_mano or to frame_mano.
extract_mano_data(frame_id, rawMano) ==
    IF frame_id \notin DOMAIN rawMano
    THEN [raised |-> FALSE, data |-> NoneData, calls |-> <<>>, out |-> <<>>,
          raw_mano |-> rawMano]
    ELSE LET frame_mano == rawMano[frame_id]
         IN  IF ~frame_mano.isDict
             THEN [raised |-> TRUE, data |-> NoneData, calls |-> <<>>, out |-> <<>>,
                   raw_mano |-> rawMano]
             ELSE LET fields == [k \in FieldNames |-> Get(frame_mano.fields, k)]
                      geo == compute_mano_3d_coordinates(fields)
                  IN  [raised |-> FALSE,
                       data |-> [tag |-> "dict", fields |-> fields,
                                 has3d |-> geo.ok, coords |-> geo.results],
                       calls |-> geo.calls, out |-> geo.out,
                       raw_mano |-> rawMano]

----------------------------------------------------------------------------
(* Storage Writer *)

base_dir == "3d_coordinates"

\* str(n) of a number n >= 0, as it is formatted into a name.
DigitText == <<"0", "1", "2", "3", "4", "5", "6", "7", "8", "9">>
RECURSIVE str(_)
str(n) == IF n < 10 THEN <<DigitText[n + 1]>> ELSE str(n \div 10) \o <<DigitText[(n % 10) + 1]>>

\* os.path.join(base_dir, seq, f"frame_{frame_id}")
T_frame == <<"f", "r", "a", "m", "e", "_">>
FrameDirName(frame_id) == T_frame \o str(frame_id)
FrameDir(seqId, frame_id) == <<base_dir, seqId, FrameDirName(frame_id)>>

\* The np.save calls, in the order the code makes them: the key of
\* coords_3d, the key of the output and the file written.
Step(out, kind, file) == [out |-> out, kind |-> kind, file |-> file]
WriteSteps ==
    <<Step("rh_output", "vertices", "rh_vertices.npy"),
      Step("rh_output", "joints", "rh_joints.npy"),
      Step("rh_output", "transforms_abs", "rh_transforms_abs.npy"),
      Step("lh_output", "vertices", "lh_vertices.npy"),
      Step("lh_output", "joints", "lh_joints.npy"),
      Step("lh_output", "transforms_abs", "lh_transforms_abs.npy")>>

\* The available_data appends, in the order the code makes them.
Entry(type, hand, file) == [type |-> type, hand |-> hand, file |-> file]
\* The appends of a writer that lists the left hand first.
ManifestLeftFirst ==
    <<[out |-> "lh_output", kind |-> "vertices",
       entry |-> Entry("vertices", "left", "lh_vertices.npy")],
      [out |-> "lh_output", kind |-> "joints",
       entry |-> Entry("joints", "left", "lh_joints.npy")],
      [out |-> "lh_output", kind |-> "transforms_abs",
       entry |-> Entry("transforms_abs", "left", "lh_transforms_abs.npy")],
      [out |-> "rh_output", kind |-> "vertices",
       entry |-> Entry("vertices", "right", "rh_vertices.npy")],
      [out |-> "rh_output", kind |-> "joints",
       entry |-> Entry("joints", "right", "rh_joints.npy")],
      [out |-> "rh_output", kind |-> "transforms_abs",
       entry |-> Entry("transforms_abs", "right", "rh_transforms_abs.npy")]>>
ManifestSteps ==
    <<[out |-> "rh_output", kind |-> "vertices",
       entry |-> Entry("vertices", "right", "rh_vertices.npy")],
      [out |-> "rh_output", kind |-> "joints",
       entry |-> Entry("joints", "right", "rh_joints.npy")],
      [out |-> "rh_output", kind |-> "transforms_abs",
       entry |-> Entry("transforms_abs", "right", "rh_transforms_abs.npy")],
      [out |-> "lh_output", kind |-> "vertices",
       entry |-> Entry("vertices", "left", "lh_vertices.npy")],
      [out |-> "lh_output", kind |-> "joints",
       entry |-> Entry("joints", "left", "lh_joints.npy")],
      [out |-> "lh_output", kind |-> "transforms_abs",
       entry |-> Entry("transforms_abs", "left", "lh_transforms_abs.npy")]>>

SummaryFile == "summary.json"
ArtifactFiles == {WriteSteps[i].file : i \in 1..Len(WriteSteps)}

\* 'rh_output' in coords_3d and 'vertices' in rh_output and
\* rh_output['vertices'] is not None
Available(coords, out, kind) == coords[out].present /\ ~coords[out][kind].none

\* x.detach().cpu().numpy() if hasattr(x, 'detach') else x: what np.save
\* stores is the array's numbers, without the computation graph.
NpyContent(x) == [data |-> x.data]

\* Points at which a Storage Writer call can raise: os.makedirs (0), the i-th
\* np.save (i), opening summary.json (7), json.dump into the opened file (8).
NoFail == -2
FailMakedirs == 0
FailOpenSummary == 7
FailDumpSummary == 8
FailPoints(md) ==
    IF md.tag = "none" \/ ~md.has3d
    THEN {NoFail}
    ELSE {NoFail, FailMakedirs, FailOpenSummary, FailDumpSummary}
         \cup {i \in 1..Len(WriteSteps) :
                 Available(md.coords, WriteSteps[i].out, WriteSteps[i].kind)}

EmptyDir == [files |-> [n \in {} |-> n], mtime |-> 0]

\* os.makedirs without exist_ok: a directory that exists is an error.
makedirs_strict(d, path, exist_ok) ==
    IF path \in DOMAIN d
    THEN [disk |-> d, raised |-> TRUE]
    ELSE [disk |-> [p \in DOMAIN d \cup {path} |-> IF p = path THEN EmptyDir ELSE d[p]],
          raised |-> FALSE]

\* os.makedirs(path, exist_ok=exist_ok): a directory that exists is an error
\* (FileExistsError) unless exist_ok.  The result is [disk, raised].
makedirs(d, path, exist_ok) ==
    IF path \in DOMAIN d
    THEN [disk |-> d, raised |-> ~exist_ok]
    ELSE [disk |-> [p \in DOMAIN d \cup {path} |-> IF p = path THEN EmptyDir ELSE d[p]],
          raised |-> FALSE]

\* Writing a file of a directory: a file that is new changes the directory's
\* modification time, a file that is overwritten does not.
PutFile(dir, name, content) ==
    [files |-> [n \in DOMAIN dir.files \cup {name} |->
                   IF n = name THEN content ELSE dir.files[n]],
     mtime |-> IF name \in DOMAIN dir.files THEN dir.mtime ELSE dir.mtime + 1]

\* The np.save calls i.. on directory dir; the call at failAt raises.
\* saved: the files the calls that returned have written, in call order.
RECURSIVE SaveArrays(_, _, _, _)
SaveArrays(dir, coords, i, failAt) ==
    IF i > Len(WriteSteps)
    THEN [dir |-> dir, raised |-> FALSE, saved |-> <<>>]
    ELSE LET w == WriteSteps[i]
         IN  IF ~Available(coords, w.out, w.kind)
             THEN SaveArrays(dir, coords, i + 1, failAt)
             ELSE IF i = failAt
             THEN [dir |-> dir, raised |-> TRUE, saved |-> <<>>]
             ELSE LET rest == SaveArrays(PutFile(dir, w.file,
                                                 NpyContent(coords[w.out][w.kind])),
                                         coords, i + 1, failAt)
                  IN  [dir |-> rest.dir, raised |-> rest.raised,
                       saved |-> <<w.file>> \o rest.saved]

RECURSIVE AvailableData(_, _)
AvailableData(coords, i) ==
    IF i > Len(ManifestSteps)
    THEN <<>>
    ELSE LET m == ManifestSteps[i]
         IN  (IF Available(coords, m.out, m.kind) THEN <<m.entry>> ELSE <<>>)
             \o AvailableData(coords, i + 1)

\* The content of summary.json: valid = FALSE is a file json.load cannot read
\* (opened for writing and left empty).
Manifest(seqId, frame_id, timestamp, entries) ==
    [valid |-> TRUE, sequence_id |-> seqId, frame_id |-> frame_id,
     timestamp |-> timestamp, available_data |-> entries]
CorruptManifest ==
    [valid |-> FALSE, sequence_id |-> <<>>, frame_id |-> 0, timestamp |-> 0,
     available_data |-> <<>>]

With(d, path, dir) == [p \in DOMAIN d |-> IF p = path THEN dir ELSE d[p]]

\* The result is [disk, raised, wrote, out, saved]: the storage tree after the
\* call, whether the call raised, whether it got past its guard, the lines
\* printed, the files its np.save calls have written.
save_3d_coordinates_to_file(d, seqId, frame_id, md, failAt) ==
    IF md.tag = "none" \/ ~md.has3d
    THEN [disk |-> d, raised |-> FALSE, wrote |-> FALSE,
          out |-> <<Line("no_3d_warning", frame_id)>>, saved |-> <<>>]
    ELSE IF failAt = FailMakedirs
    THEN [disk |-> d, raised |-> TRUE, wrote |-> FALSE, out |-> <<>>, saved |-> <<>>]
    ELSE
    LET frame_dir == FrameDir(seqId, frame_id)
        made == makedirs(d, frame_dir, TRUE)
        d1 == made.disk
        arrays == SaveArrays(d1[frame_dir], md.coords, 1, failAt)
        dir2 == arrays.dir
        summary_data == Manifest(seqId, frame_id, dir2.mtime,
                                 AvailableData(md.coords, 1))
    IN  IF made.raised
        THEN [disk |-> d, raised |-> TRUE, wrote |-> FALSE, out |-> <<>>,
              saved |-> <<>>]
        ELSE IF arrays.raised \/ failAt = FailOpenSummary
        THEN [disk |-> With(d1, frame_dir, dir2), raised |-> TRUE,
              wrote |-> FALSE, out |-> <<>>, saved |-> arrays.saved]
        ELSE IF failAt = FailDumpSummary
        THEN [disk |-> With(d1, frame_dir, PutFile(dir2, SummaryFile, CorruptManifest)),
              raised |-> TRUE, wrote |-> FALSE, out |-> <<>>, saved |-> arrays.saved]
        ELSE [disk |-> With(d1, frame_dir, PutFile(dir2, SummaryFile, summary_data)),
              raised |-> FALSE, wrote |-> TRUE, out |-> <<Line("saved", frame_id)>>,
              saved |-> arrays.saved]

----------------------------------------------------------------------------
(* Inputs of main: the files found, the archives they hold *)

\* Longest frame_id_list of an archive.
MaxFrames == 3
\* Longest frame_id_list for which the interactive mode is explored.
MaxInteractiveFrames == 1
\* Longest frame_id_list of an archive that lacks the obj_list key.
MaxFramesWithoutObjList == 1
\* Most prompts answered in one interactive run.
MaxPrompts == 2
FrameIds == {1, 2, 3}
ProgressInterval == 100

T_dir == <<"a", "n", "n", "o", "_", "p", "r", "e", "v", "i", "e", "w", "/">>

\* The name of the expected shape, scene_01__A001++seq__1a2b3c4d__<stamp>.pkl
ShapedParts ==
    [prefix |-> <<>>, sceneNum |-> <<"0", "1">>, letter |-> <<"A">>,
     objNum |-> <<"0", "0", "1">>, marker |-> T_marker, token |-> T_token,
     sep |-> T_sep, stamp |-> T_stamp, suffix |-> T_pkl]
\* The same name without the ++seq__ marker.
UnmarkedParts == [ShapedParts EXCEPT !.marker = <<"_", "_", "s", "e", "q", "_", "_">>]

\* The names main is run on: the one of the expected shape and the ones that
\* differ from it in one or more of marker, token, separator and timestamp.
MainParts ==
    {p \in PartsChoices :
        /\ p.prefix = <<>> /\ p.suffix = T_pkl
        /\ p.sceneNum = <<"0", "1">> /\ p.letter \in {<<"A">>, <<"b">>}
        /\ p.objNum = <<"0", "0", "1">>
        /\ p.token \in {T_token, <<>>, <<"1", "A">>, <<"a", "_", "b">>}}

\* glob("anno_preview/*.pkl")
PathOf(p) == T_dir \o BuildName(p)

\* os.path.basename: what follows the last "/"
RECURSIVE basename(_)
basename(path) ==
    IF \E i \in 1..Len(path) : path[i] = "/"
    THEN basename(Tail(path))
    ELSE path

\* input() answers: NotANumber is text int() raises ValueError on, NoInput
\* stands for user_input before the first prompt.
NotANumber == -1
NoInput == -3

GoodRecord(f) ==
    [isDict |-> TRUE,
     fields |-> [k \in FieldNames |-> f]]
LhBadRecord(f) ==
    [isDict |-> TRUE,
     fields |-> [k \in FieldNames |-> IF k = "lh__pose_coeffs" THEN BAD ELSE f]]
AllNullRecord ==
    [isDict |-> TRUE, fields |-> [k \in FieldNames |-> NULL]]
NotARecord ==
    [isDict |-> FALSE, fields |-> [k \in {} |-> NULL]]
RecordChoices(f) == {GoodRecord(f), LhBadRecord(f), NotARecord}

RawManoChoices ==
    UNION {{m \in [keys -> UNION {RecordChoices(f) : f \in FrameIds}] :
              \A f \in keys : m[f] \in RecordChoices(f)} : keys \in SUBSET FrameIds}

FrameListChoices == UNION {[1..n -> FrameIds] : n \in 0..MaxFrames}

\* What pickle.load gives: readable = FALSE is a file that cannot be opened
\* or deserialized; keys are the top-level keys the blob holds.  A key the
\* blob does not hold has no value: the field stands as NoList / NoMano.
TopKeys == {"frame_id_list", "obj_list", "raw_mano"}
Range(list) == {list[i] : i \in 1..Len(list)}
EmptyMano == [f \in {} |-> AllNullRecord]
NoList == <<-1>>
NoMano == [f \in {-1} |-> NotARecord]
ObjListChoices == {<<"o1", "o2">>}
\* A file pickle.load cannot read (and the value of archive before any load).
NoArchive ==
    [readable |-> FALSE, keys |-> {}, frame_id_list |-> NoList,
     obj_list |-> NoList, raw_mano |-> NoMano]
\* raw_mano holds records only for identifiers of frame_id_list when the blob
\* has both: main never looks up any other.  obj_list is unpacked at line 215
\* and read only for its length at line 216, so the archives without it are
\* drawn short.
Archives ==
    {a \in [readable : {TRUE}, keys : SUBSET TopKeys,
            frame_id_list : FrameListChoices \cup {NoList},
            obj_list : ObjListChoices \cup {NoList},
            raw_mano : RawManoChoices \cup {NoMano}] :
        /\ a.frame_id_list = NoList <=> "frame_id_list" \notin a.keys
        /\ a.obj_list = NoList <=> "obj_list" \notin a.keys
        /\ a.raw_mano = NoMano <=> "raw_mano" \notin a.keys
        /\ ("frame_id_list" \in a.keys /\ "obj_list" \notin a.keys)
              => Len(a.frame_id_list) <= MaxFramesWithoutObjList
        /\ {"frame_id_list", "raw_mano"} \subseteq a.keys
              => DOMAIN a.raw_mano \subseteq Range(a.frame_id_list)}
    \cup {NoArchive}

\* data[key] without a default: KeyError when the blob lacks the key.
LoadWithoutDefaults(blob) ==
    IF ~blob.readable \/ blob.keys # TopKeys
    THEN [raised |-> TRUE, frame_id_list |-> <<>>, obj_list |-> <<>>,
          raw_mano |-> EmptyMano]
    ELSE [raised |-> FALSE, frame_id_list |-> blob.frame_id_list,
          obj_list |-> blob.obj_list, raw_mano |-> blob.raw_mano]

\* A loader that keeps the first occurrence of each frame identifier only.
RECURSIVE FirstOccurrences(_)
FirstOccurrences(list) ==
    IF list = <<>>
    THEN <<>>
    ELSE LET front == SubSeq(list, 1, Len(list) - 1)
             x == list[Len(list)]
         IN  FirstOccurrences(front)
             \o (IF \E i \in 1..Len(front) : front[i] = x THEN <<>> ELSE <<x>>)
LoadWithoutDuplicates(blob) ==
    IF ~blob.readable
    THEN [raised |-> TRUE, frame_id_list |-> <<>>, obj_list |-> <<>>,
          raw_mano |-> EmptyMano]
    ELSE [raised |-> FALSE,
          frame_id_list |-> IF "frame_id_list" \in blob.keys
                            THEN FirstOccurrences(blob.frame_id_list) ELSE <<>>,
          obj_list |-> IF "obj_list" \in blob.keys THEN blob.obj_list ELSE <<>>,
          raw_mano |-> IF "raw_mano" \in blob.keys THEN blob.raw_mano ELSE EmptyMano]

\* data.get(key, default)
DictGet(blob, key, default) == IF key \in blob.keys THEN blob[key] ELSE default

\* The result is [raised, frame_id_list, obj_list, raw_mano].
load_pickle_data(blob) ==
    IF ~blob.readable
    THEN [raised |-> TRUE, frame_id_list |-> <<>>, obj_list |-> <<>>,
          raw_mano |-> EmptyMano]
    ELSE [raised |-> FALSE,
          frame_id_list |-> DictGet(blob, "frame_id_list", <<>>),
          obj_list |-> DictGet(blob, "obj_list", <<>>),
          raw_mano |-> DictGet(blob, "raw_mano", EmptyMano)]

----------------------------------------------------------------------------
(* main() *)

NoSeq == [found |-> FALSE, id |-> <<>>]
\* The last call of the writer driver: its arguments, the failure point the
\* environment chose, whether it raised, whether it wrote a manifest, the
\* artifact files it wrote; clean: no call so far has raised;
\* repeat: the call before it had the same arguments and returned normally.
NoCall == [made |-> FALSE, seqId |-> <<>>, frame_id |-> 0, data |-> NoneData,
           failAt |-> NoFail, raised |-> FALSE, clean |-> TRUE, repeat |-> FALSE,
           wrote |-> FALSE, saved |-> <<>>]

\* The points at which a Storage Writer call made by main is taken to fail:
\* os.makedirs, the first np.save of the left hand (the right hand's files are
\* written, no manifest), and json.dump (all files, an unreadable manifest).
MainFailPoints == {NoFail, FailMakedirs, 4, FailDumpSummary}

BatchPcs == {"batch", "batch_save", "batch_progress"}

\* if mano_data: the guard without its second half
HasDataOnly(md) == md.tag = "dict"
\* Lines 239 and 268: if mano_data and '3d_coordinates' in mano_data
HasCoordinates(md) == md.tag = "dict" /\ md.has3d

\* The loop's except clause ending in break instead of continue.
ErrorBreaks == "done"
\* Lines 247-249: where the batch loop goes after a caught error (continue).
AfterFrameError == "batch"

Init ==
    /\ pc = "start"
    /\ \/ parts = NoParts /\ pickle_files = <<>>
       \/ parts \in MainParts /\ pickle_files = <<PathOf(UnmarkedParts), PathOf(parts)>>
    /\ selected_file = <<>>
    /\ seq = NoSeq
    /\ frame_id_list = <<>>
    /\ raw_mano = EmptyMano
    /\ idx = 0
    /\ mano_data = NoneData
    /\ processed_count = 0
    /\ disk = [p \in {} |-> EmptyDir]
    /\ console = <<>>
    /\ manoCalls = <<>>
    /\ prompts = 0
    /\ seqResult = NoSeq
    /\ lastCall = NoCall
    /\ writes = 0
    /\ archive = NoArchive
    /\ obj_list = <<>>
    /\ user_input = NoInput
    /\ frame_dirs = <<>>

\* Lines 184-188: no archive found.
NoFiles ==
    /\ pc = "start"
    /\ pickle_files = <<>>
    /\ console' = console \o <<Line("no pickle files", 0)>>
    /\ pc' = "done"
    /\ UNCHANGED <<pickle_files, selected_file, seq, frame_id_list, raw_mano, idx,
                   mano_data, processed_count, disk, manoCalls, prompts, parts,
                   seqResult, lastCall, writes, archive, obj_list, user_input, frame_dirs>>

\* Lines 190-227: the selection is read, the sequence identifier extracted
\* and the archive loaded.
ChooseFile ==
    /\ pc = "start"
    /\ pickle_files # <<>>
    /\ \E input \in {NotANumber} \cup (0..(Len(pickle_files) + 1)) :
        LET choice == input - 1
            listed == [i \in 1..Len(pickle_files) |-> Line("listed", i)]
        IN  IF input = NotANumber
            THEN /\ console' = console \o listed \o <<Line("input invalid", 0)>>
                 /\ pc' = "done"
                 /\ UNCHANGED <<selected_file, seq, frame_id_list, raw_mano,
                                archive, obj_list, user_input, frame_dirs>>
            ELSE IF choice < 0 \/ choice >= Len(pickle_files)
            THEN /\ console' = console \o listed \o <<Line("choice invalid", 0)>>
                 /\ pc' = "done"
                 /\ UNCHANGED <<selected_file, seq, frame_id_list, raw_mano,
                                archive, obj_list, user_input, frame_dirs>>
            ELSE
            LET file == pickle_files[choice + 1]
                sid == extract_sequence_id(basename(file))
            IN  /\ selected_file' = file
                /\ seq' = sid
                /\ IF ~sid.found \/ sid.id = <<>>
                   THEN /\ console' = console \o listed \o <<Line("no sequence id", 0)>>
                        /\ pc' = "done"
                        /\ UNCHANGED <<frame_id_list, raw_mano, archive, obj_list, user_input, frame_dirs>>
                   ELSE \E blob \in Archives :
                        LET loaded == load_pickle_data(blob)
                        IN  /\ archive' = blob
                            /\ IF loaded.raised
                               THEN /\ console' = console \o listed
                                           \o <<Line("processing sequence", 0),
                                                Line("load failed", 0)>>
                                    /\ pc' = "done"
                                    /\ UNCHANGED <<frame_id_list, raw_mano, obj_list>>
                               ELSE /\ console' = console \o listed
                                           \o <<Line("processing sequence", 0),
                                                Line("loaded", Len(loaded.frame_id_list))>>
                                    /\ frame_id_list' = loaded.frame_id_list
                                    /\ raw_mano' = loaded.raw_mano
                                    /\ obj_list' = loaded.obj_list
                                    /\ pc' = "ask_batch"
    /\ UNCHANGED <<pickle_files, idx, mano_data, processed_count, disk, manoCalls,
                   prompts, parts, seqResult, lastCall, writes, user_input, frame_dirs>>

\* Lines 229-232: batch mode is chosen with "y", anything else is interactive.
AskBatch ==
    /\ pc = "ask_batch"
    /\ \E batch_choice \in {"y"} \cup (IF Len(frame_id_list) <= MaxInteractiveFrames
                                      THEN {"n"} ELSE {}) :
        IF batch_choice = "y"
        THEN /\ console' = console \o <<Line("batch start", 0)>>
             /\ processed_count' = 0
             /\ idx' = 1
             /\ pc' = "batch"
        ELSE /\ pc' = "prompt"
             /\ UNCHANGED <<console, processed_count, idx>>
    /\ UNCHANGED <<pickle_files, selected_file, seq, frame_id_list, raw_mano,
                   mano_data, disk, manoCalls, prompts, parts, seqResult, lastCall, writes, archive, obj_list, user_input, frame_dirs>>

\* Line 236, and lines 247-249 when it raises.
BatchExtract ==
    /\ pc = "batch"
    /\ idx <= Len(frame_id_list)
    /\ LET frame_id == frame_id_list[idx]
           r == extract_mano_data(frame_id, raw_mano)
       IN  /\ manoCalls' = manoCalls \o r.calls
           /\ raw_mano' = r.raw_mano
           /\ IF r.raised
              THEN /\ console' = console \o r.out
                                     \o <<Line("frame error: extraction", frame_id)>>
                   /\ idx' = idx + 1
                   /\ pc' = AfterFrameError
                   /\ UNCHANGED mano_data
              ELSE /\ console' = console \o r.out
                   /\ mano_data' = r.data
                   /\ pc' = "batch_save"
                   /\ UNCHANGED idx
    /\ UNCHANGED <<pickle_files, selected_file, seq, frame_id_list,
                   processed_count, disk, prompts, parts, seqResult, lastCall, writes, archive, obj_list, user_input, frame_dirs>>

\* Lines 239-241, and lines 247-249 when the write raises.
BatchSave ==
    /\ pc = "batch_save"
    /\ LET frame_id == frame_id_list[idx]
       IN  IF HasCoordinates(mano_data)
           THEN \E failAt \in FailPoints(mano_data) \cap MainFailPoints :
                LET w == save_3d_coordinates_to_file(disk, seq.id, frame_id,
                                                     mano_data, failAt)
                IN  /\ disk' = w.disk
                    /\ IF w.raised
                       THEN /\ console' = console \o w.out
                                          \o <<Line("frame error: write", frame_id)>>
                            /\ idx' = idx + 1
                            /\ pc' = AfterFrameError
                            /\ UNCHANGED processed_count
                       ELSE /\ console' = console \o w.out
                            /\ processed_count' = processed_count + 1
                            /\ pc' = "batch_progress"
                            /\ UNCHANGED idx
           ELSE /\ pc' = "batch_progress"
                /\ UNCHANGED <<disk, console, processed_count, idx>>
    /\ UNCHANGED <<pickle_files, selected_file, seq, frame_id_list, raw_mano,
                   mano_data, manoCalls, prompts, parts, seqResult, lastCall, writes, archive, obj_list, user_input, frame_dirs>>

\* Lines 244-245, the end of one iteration of the loop.
BatchProgress ==
    /\ pc = "batch_progress"
    /\ console' = IF processed_count % ProgressInterval = 0
                  THEN console \o <<Line("progress", processed_count)>>
                  ELSE console
    /\ idx' = idx + 1
    /\ pc' = "batch"
    /\ UNCHANGED <<pickle_files, selected_file, seq, frame_id_list, raw_mano,
                   mano_data, processed_count, disk, manoCalls, prompts, parts,
                   seqResult, lastCall, writes, archive, obj_list, user_input, frame_dirs>>

\* Lines 251-252: the loop is over.
BatchFinish ==
    /\ pc = "batch"
    /\ idx > Len(frame_id_list)
    /\ console' = console \o <<Line("batch complete", processed_count)>>
    /\ pc' = "done"
    /\ UNCHANGED <<pickle_files, selected_file, seq, frame_id_list, raw_mano, idx,
                   mano_data, processed_count, disk, manoCalls, prompts, parts,
                   seqResult, lastCall, writes, archive, obj_list, user_input, frame_dirs>>

\* A KeyboardInterrupt during the batch loop: the loop's except clause names
\* Exception, which KeyboardInterrupt is not, and nothing around the loop
\* catches it, so main ends with the exception.  One that arrives inside a
\* Storage Writer call leaves what the call had written.
BatchInterrupt ==
    /\ pc \in BatchPcs
    /\ pc = "batch" => idx <= Len(frame_id_list)
    /\ \/ UNCHANGED disk
       \/ /\ pc = "batch_save"
          /\ HasCoordinates(mano_data)
          /\ \E at \in (FailPoints(mano_data) \cap MainFailPoints) \ {NoFail, FailMakedirs} :
                disk' = save_3d_coordinates_to_file(disk, seq.id, frame_id_list[idx],
                                                    mano_data, at).disk
    /\ pc' = "interrupted"
    /\ UNCHANGED <<pickle_files, selected_file, seq, frame_id_list, raw_mano, idx,
                   mano_data, processed_count, console, manoCalls, prompts, parts,
                   seqResult, lastCall, writes, archive, obj_list, user_input, frame_dirs>>

\* Lines 255-275: one prompt of the interactive loop.  Quit is the text
\* 'quit'; the numbers offered are the frame identifiers and one more.
Quit == -2
PromptInputs == {Quit, NotANumber} \cup FrameIds \cup {0}

\* A membership test that accepts every number.
AnyNumber(x, list) == TRUE
InList(x, list) == \E i \in 1..Len(list) : list[i] = x

Prompt ==
    /\ pc = "prompt"
    /\ prompts < MaxPrompts
    /\ prompts' = prompts + 1
    /\ \E answer \in PromptInputs :
        /\ user_input' = answer
        /\ IF answer = Quit
           THEN /\ pc' = "done"
                /\ UNCHANGED <<console, mano_data, manoCalls, disk, raw_mano>>
           ELSE IF answer = NotANumber
           THEN /\ console' = console \o <<Line("ERROR", 0)>>
                /\ UNCHANGED <<pc, mano_data, manoCalls, disk, raw_mano>>
           ELSE IF ~InList(answer, frame_id_list)
           THEN /\ console' = console \o <<Line("invalid frame ID", answer)>>
                /\ UNCHANGED <<pc, mano_data, manoCalls, disk, raw_mano>>
           ELSE
           LET r == extract_mano_data(answer, raw_mano)
           IN  /\ manoCalls' = manoCalls \o r.calls
               /\ raw_mano' = r.raw_mano
               /\ pc' = pc
               /\ IF r.raised
                  THEN /\ console' = console \o r.out \o <<Line("ERROR", 0)>>
                       /\ UNCHANGED <<mano_data, disk>>
                  ELSE /\ mano_data' = r.data
                       /\ IF HasCoordinates(r.data)
                          THEN \E failAt \in FailPoints(r.data) \cap MainFailPoints :
                               LET w == save_3d_coordinates_to_file(disk, seq.id, answer,
                                                                    r.data, failAt)
                               IN  /\ disk' = w.disk
                                   /\ console' = console \o r.out \o w.out
                                          \o (IF w.raised THEN <<Line("ERROR", 0)>> ELSE <<>>)
                          ELSE /\ console' = console \o r.out
                               /\ UNCHANGED disk
    /\ UNCHANGED <<pickle_files, selected_file, seq, frame_id_list, idx,
                   processed_count, parts, seqResult, lastCall, writes, archive, obj_list,
                   frame_dirs>>

\* Lines 271-273: a KeyboardInterrupt in the interactive loop is caught and
\* ends the loop.
PromptInterrupt ==
    /\ pc = "prompt"
    /\ console' = console \o <<Line("interrupted by user", 0)>>
    /\ pc' = "done"
    /\ UNCHANGED <<pickle_files, selected_file, seq, frame_id_list, raw_mano, idx,
                   mano_data, processed_count, disk, manoCalls, prompts, parts,
                   seqResult, lastCall, writes, archive, obj_list, user_input, frame_dirs>>

Next ==
    \/ NoFiles
    \/ ChooseFile
    \/ AskBatch
    \/ BatchExtract
    \/ BatchSave
    \/ BatchProgress
    \/ BatchFinish
    \/ BatchInterrupt
    \/ Prompt
    \/ PromptInterrupt

Spec == Init /\ [][Next]_vars

----------------------------------------------------------------------------
(* Parser driver: extract_sequence_id applied to one built name *)

InitParser ==
    /\ pc = "parser"
    /\ parts \in PartsChoices
    /\ seqResult = NoSeq
    /\ pickle_files = <<>>
    /\ selected_file = <<>>
    /\ seq = NoSeq
    /\ frame_id_list = <<>>
    /\ raw_mano = EmptyMano
    /\ idx = 0
    /\ mano_data = NoneData
    /\ processed_count = 0
    /\ disk = [p \in {} |-> EmptyDir]
    /\ console = <<>>
    /\ manoCalls = <<>>
    /\ prompts = 0
    /\ lastCall = NoCall
    /\ writes = 0
    /\ archive = NoArchive
    /\ obj_list = <<>>
    /\ user_input = NoInput
    /\ frame_dirs = <<>>

ParseName ==
    /\ pc = "parser"
    /\ seqResult' = extract_sequence_id(BuildName(parts))
    /\ pc' = "parsed"
    /\ UNCHANGED <<pickle_files, selected_file, seq, frame_id_list, raw_mano, idx,
                   mano_data, processed_count, disk, console, manoCalls, prompts,
                   parts, lastCall, writes, archive, obj_list, user_input, frame_dirs>>

NextParser == ParseName

SpecParser == InitParser /\ [][NextParser]_vars

----------------------------------------------------------------------------
(* Writer driver: Storage Writer calls made directly, with any geometry *)

\* Most Storage Writer calls in one run of the driver.
MaxWrites == 2

WriterSeqs == {<<"a", "b", "c">>}
WriterFrames == {7, 8}

\* An output of one hand: the key is absent, all three arrays are set, or
\* only the joints are (vertices and transforms_abs are None).
SideChoices(side) ==
    {NoOutput,
     ManoLayerOutput(side, 1, 1),
     [present |-> TRUE, vertices |-> NoneArr,
      joints |-> Tensor("joints", side, 1, 1), transforms_abs |-> NoneArr]}

CoordsChoices ==
    [lh_output : SideChoices("left"), rh_output : SideChoices("right")]

WriterData ==
    {NoneData,
     [tag |-> "dict", fields |-> [k \in FieldNames |-> NULL], has3d |-> FALSE,
      coords |-> NoCoords]}
    \cup {[tag |-> "dict", fields |-> [k \in FieldNames |-> 1], has3d |-> TRUE,
           coords |-> c] : c \in CoordsChoices}

InitWriter ==
    /\ pc = "writer"
    /\ disk = [p \in {} |-> EmptyDir]
    /\ lastCall = NoCall
    /\ writes = 0
    /\ archive = NoArchive
    /\ obj_list = <<>>
    /\ user_input = NoInput
    /\ frame_dirs = <<>>
    /\ parts = NoParts
    /\ seqResult = NoSeq
    /\ pickle_files = <<>>
    /\ selected_file = <<>>
    /\ seq = NoSeq
    /\ frame_id_list = <<>>
    /\ raw_mano = EmptyMano
    /\ idx = 0
    /\ mano_data = NoneData
    /\ processed_count = 0
    /\ console = <<>>
    /\ manoCalls = <<>>
    /\ prompts = 0

WriterCall ==
    /\ pc = "writer"
    /\ writes < MaxWrites
    /\ writes' = writes + 1
    /\ \E seqId \in WriterSeqs, frame_id \in WriterFrames, md \in WriterData :
       \E failAt \in FailPoints(md) :
        LET w == save_3d_coordinates_to_file(disk, seqId, frame_id, md, failAt)
        IN  /\ disk' = w.disk
            /\ lastCall' = [made |-> TRUE, seqId |-> seqId, frame_id |-> frame_id,
                            data |-> md, failAt |-> failAt, raised |-> w.raised,
                            wrote |-> w.wrote, saved |-> w.saved,
                            clean |-> lastCall.clean /\ ~w.raised,
                            repeat |-> /\ lastCall.made
                                       /\ ~lastCall.raised
                                       /\ lastCall.seqId = seqId
                                       /\ lastCall.frame_id = frame_id
                                       /\ lastCall.data = md]
    /\ UNCHANGED <<pc, pickle_files, selected_file, seq, frame_id_list, raw_mano,
                   idx, mano_data, processed_count, console, manoCalls, prompts,
                   parts, seqResult, archive, obj_list, user_input, frame_dirs>>

NextWriter == WriterCall

SpecWriter == InitWriter /\ [][NextWriter]_vars

----------------------------------------------------------------------------
(* Hierarchy Walker: Hand3DVisualizer.list_frames_in_sequence *)

StartsWith(name, prefix) ==
    Len(name) >= Len(prefix) /\ SubSeq(name, 1, Len(prefix)) = prefix

\* name.replace(old, ""): every occurrence of old is removed, left to right.
RECURSIVE Remove(_, _)
Remove(name, old) ==
    IF name = <<>>
    THEN <<>>
    ELSE IF StartsWith(name, old)
    THEN Remove(SubSeq(name, Len(old) + 1, Len(name)), old)
    ELSE <<Head(name)>> \o Remove(Tail(name), old)

\* int(text) for text without sign, blanks or underscores (none of the names
\* drawn below has any): the number the digits spell, ValueError otherwise.
DigitValue(c) == CHOOSE d \in 0..9 : DigitText[d + 1] = c
RECURSIVE Value(_)
Value(t) ==
    IF t = <<>> THEN 0 ELSE 10 * Value(SubSeq(t, 1, Len(t) - 1)) + DigitValue(t[Len(t)])
int(t) ==
    IF t # <<>> /\ \A i \in 1..Len(t) : t[i] \in DIGITS
    THEN [raised |-> FALSE, value |-> Value(t)]
    ELSE [raised |-> TRUE, value |-> 0]

\* The sort key of line 431: int(x.name.replace("frame_", ""))
SortKey(name) == int(Remove(name, T_frame))

\* list.sort(key=...): stable, ascending by key.
RECURSIVE Insert(_, _)
Insert(sorted, x) ==
    IF sorted = <<>>
    THEN <<x>>
    ELSE IF SortKey(sorted[Len(sorted)]).value <= SortKey(x).value
    THEN sorted \o <<x>>
    ELSE Insert(SubSeq(sorted, 1, Len(sorted) - 1), x) \o <<sorted[Len(sorted)]>>
RECURSIVE SortByKey(_)
SortByKey(list) ==
    IF list = <<>>
    THEN <<>>
    ELSE Insert(SortByKey(SubSeq(list, 1, Len(list) - 1)), list[Len(list)])

\* The storage tree: a directory is in it when it is recorded or a recorded
\* directory lies in it; the files of the recorded sequence directory are
\* its entries that are no directories.
SeqPath(seqId) == <<base_dir, seqId>>
Subdirs(d, seqId) == {p[3] : p \in {q \in DOMAIN d : Len(q) = 3 /\ q[2] = seqId}}
SeqDirExists(d, seqId) == SeqPath(seqId) \in DOMAIN d \/ Subdirs(d, seqId) # {}
\* seq_dir.iterdir() in some order: the sequences without repetition of a set
Orders(S) == {f \in [1..Cardinality(S) -> S] : \A i, j \in DOMAIN f : f[i] = f[j] => i = j}

\* One printed line of the walker.
WalkLine(msg, frame, count, hand, types) ==
    [msg |-> msg, frame |-> frame, count |-> count, hand |-> hand, types |-> types]

\* Lines 447-453: data_types, the types of the entries by hand, the hands in
\* the order they first appear.
RECURSIVE Group(_, _)
Group(entries, acc) ==
    IF entries = <<>>
    THEN acc
    ELSE LET e == Head(entries)
         IN  Group(Tail(entries),
                   IF \E i \in 1..Len(acc) : acc[i].hand = e.hand
                   THEN [i \in 1..Len(acc) |->
                           IF acc[i].hand = e.hand
                           THEN [acc[i] EXCEPT !.types = @ \o <<e.type>>]
                           ELSE acc[i]]
                   ELSE acc \o <<[hand |-> e.hand, types |-> <<e.type>>]>>)

\* frame_dir.glob("*.npy"): of the files of the model, the artifact files.
NpyFiles(dir) == DOMAIN dir.files \cap ArtifactFiles

\* Lines 435-460: what is printed for one frame directory.
FrameReport(name, dir) ==
    LET npy_files == NpyFiles(dir)
        head == <<WalkLine("frame", Remove(name, T_frame), 0, "", <<>>),
                  WalkLine("npy files", <<>>, Cardinality(npy_files), "", <<>>)>>
    IN  IF SummaryFile \notin DOMAIN dir.files
        THEN head \o <<WalkLine("no summary", <<>>, 0, "", <<>>)>>
        ELSE IF ~dir.files[SummaryFile].valid
        THEN head \o <<WalkLine("cannot read summary", <<>>, 0, "", <<>>)>>
        ELSE LET data_types == Group(dir.files[SummaryFile].available_data, <<>>)
             IN  head \o [i \in 1..Len(data_types) |->
                            WalkLine("hand", <<>>, 0, data_types[i].hand,
                                     data_types[i].types)]

\* Most subdirectories of the sequence directory.
MaxDirs == 3

\* The sequence the walker is asked about, and the names its directory may
\* hold: frame_1, frame_2, frame_10, frame_x and tmp.
WalkerSeq == <<"a", "b", "c">>
DirNameChoices ==
    {FrameDirName(1), FrameDirName(2), FrameDirName(10), T_frame \o <<"x">>,
     <<"t", "m", "p">>}
\* A plain file of the sequence directory whose name starts with frame_.
SeqFileChoices == {{}, {T_frame \o <<"9">>}}

\* What a frame directory may hold: nothing, or what a Storage Writer call
\* left there: all the files and the manifest, the files without a manifest,
\* the files and an unreadable manifest, for geometry of both hands and for
\* geometry without any array.
WalkerData ==
    {[tag |-> "dict", fields |-> [k \in FieldNames |-> 1], has3d |-> TRUE,
      coords |-> c] :
        c \in {NoCoords,
               [lh_output |-> ManoLayerOutput("left", 1, 1),
                rh_output |-> ManoLayerOutput("right", 1, 1)]}}
DirChoices ==
    {EmptyDir}
    \cup {save_3d_coordinates_to_file([p \in {} |-> EmptyDir], WalkerSeq, 1, md, failAt)
              .disk[FrameDir(WalkerSeq, 1)] :
            md \in WalkerData, failAt \in {NoFail, FailOpenSummary, FailDumpSummary}}

WalkerTrees ==
    LET frames ==
            UNION {[{<<base_dir, WalkerSeq, n>> : n \in S} -> DirChoices] :
                     S \in {T \in SUBSET DirNameChoices : Cardinality(T) <= MaxDirs}}
        WithSeqDir(t, files) ==
            [p \in DOMAIN t \cup {SeqPath(WalkerSeq)} |->
                IF p = SeqPath(WalkerSeq)
                THEN [files |-> [n \in files |-> n], mtime |-> 0]
                ELSE t[p]]
    IN  frames \cup {WithSeqDir(t, files) : t \in frames, files \in SeqFileChoices}

InitWalker ==
    /\ pc = "walker"
    /\ disk \in WalkerTrees
    /\ frame_dirs = <<>>
    /\ idx = 0
    /\ console = <<>>
    /\ lastCall = NoCall
    /\ writes = 0
    /\ parts = NoParts
    /\ seqResult = NoSeq
    /\ pickle_files = <<>>
    /\ selected_file = <<>>
    /\ seq = NoSeq
    /\ frame_id_list = <<>>
    /\ raw_mano = EmptyMano
    /\ mano_data = NoneData
    /\ processed_count = 0
    /\ manoCalls = <<>>
    /\ prompts = 0
    /\ archive = NoArchive
    /\ obj_list = <<>>
    /\ user_input = NoInput

\* The variables of main and of the other drivers, which the walker leaves
\* alone.
notWalker ==
    <<pickle_files, selected_file, seq, frame_id_list, raw_mano, mano_data,
      processed_count, manoCalls, prompts, parts, seqResult, lastCall, writes,
      archive, obj_list, user_input>>

\* Lines 425-428: the sequence directory does not exist.
WalkNoSequence ==
    /\ pc = "walker"
    /\ ~SeqDirExists(disk, WalkerSeq)
    /\ console' = console \o <<WalkLine("no sequence directory", <<>>, 0, "", <<>>)>>
    /\ pc' = "walked"
    /\ UNCHANGED <<disk, frame_dirs, idx, notWalker>>

\* Lines 430-433: the frame directories are collected and sorted; int()
\* raising on a name ends the call with the ValueError.
WalkSort ==
    /\ pc = "walker"
    /\ SeqDirExists(disk, WalkerSeq)
    /\ LET found == {n \in Subdirs(disk, WalkerSeq) : StartsWith(n, T_frame)}
       IN  IF \E n \in found : SortKey(n).raised
           THEN /\ pc' = "walk_raised"
                /\ UNCHANGED <<frame_dirs, idx, console>>
           ELSE \E order \in Orders(found) :
                   /\ frame_dirs' = SortByKey(order)
                   /\ console' = console \o <<WalkLine("frames of", <<>>, 0, "", <<>>)>>
                   /\ idx' = 1
                   /\ pc' = "walking"
    /\ UNCHANGED <<disk, notWalker>>

\* Lines 434-460: one frame directory is reported.
WalkFrame ==
    /\ pc = "walking"
    /\ idx <= Len(frame_dirs)
    /\ LET name == frame_dirs[idx]
       IN  console' = console \o FrameReport(name, disk[<<base_dir, WalkerSeq, name>>])
    /\ idx' = idx + 1
    /\ UNCHANGED <<pc, disk, frame_dirs, notWalker>>

WalkEnd ==
    /\ pc = "walking"
    /\ idx > Len(frame_dirs)
    /\ pc' = "walked"
    /\ UNCHANGED <<disk, frame_dirs, idx, console, notWalker>>

NextWalker ==
    \/ WalkNoSequence
    \/ WalkSort
    \/ WalkFrame
    \/ WalkEnd

SpecWalker == InitWalker /\ [][NextWalker]_vars

----------------------------------------------------------------------------
(* Extractor driver: extract_mano_data applied to one frame identifier *)

\* The records of the mappings the driver draws: those of the archives and
\* the record whose six fields are None.
ExtractorManos ==
    UNION {{m \in [keys -> UNION {RecordChoices(f) \cup {AllNullRecord} : f \in FrameIds}] :
              \A f \in keys : m[f] \in RecordChoices(f) \cup {AllNullRecord}} :
           keys \in SUBSET FrameIds}

InitExtractor ==
    /\ pc = "extractor"
    /\ raw_mano \in ExtractorManos
    /\ frame_id_list \in {<<f>> : f \in FrameIds}
    /\ idx = 1
    /\ mano_data = NoneData
    /\ manoCalls = <<>>
    /\ console = <<>>
    /\ disk = [p \in {} |-> EmptyDir]
    /\ frame_dirs = <<>>
    /\ lastCall = NoCall
    /\ writes = 0
    /\ parts = NoParts
    /\ seqResult = NoSeq
    /\ pickle_files = <<>>
    /\ selected_file = <<>>
    /\ seq = NoSeq
    /\ processed_count = 0
    /\ prompts = 0
    /\ archive = NoArchive
    /\ obj_list = <<>>
    /\ user_input = NoInput

ExtractCall ==
    /\ pc = "extractor"
    /\ LET r == extract_mano_data(frame_id_list[idx], raw_mano)
       IN  /\ raw_mano' = r.raw_mano
           /\ manoCalls' = manoCalls \o r.calls
           /\ console' = console \o r.out
           /\ mano_data' = r.data
           /\ pc' = IF r.raised THEN "extract_raised" ELSE "extracted"
    /\ UNCHANGED <<pickle_files, selected_file, seq, frame_id_list, idx,
                   processed_count, disk, prompts, parts, seqResult, lastCall,
                   writes, archive, obj_list, user_input, frame_dirs>>

NextExtractor == ExtractCall

SpecExtractor == InitExtractor /\ [][NextExtractor]_vars

----------------------------------------------------------------------------
(* The expected shape of an archive name, stated on its pieces:            *)
(* scene_<N>__<Letter><N>++seq__<hex-token>__<timestamp>                   *)

AllIn(t, cls) == \A i \in 1..Len(t) : t[i] \in cls
IsNumber(t) == t # <<>> /\ AllIn(t, DIGITS)
DashPositions == {5, 8, 11, 14, 17}
IsStamp(t) ==
    /\ Len(t) = 19
    /\ \A i \in 1..19 : IF i \in DashPositions THEN t[i] = "-" ELSE t[i] \in DIGITS
IsShape(p) ==
    /\ IsNumber(p.sceneNum)
    /\ Len(p.letter) = 1 /\ AllIn(p.letter, UPPER)
    /\ IsNumber(p.objNum)
    /\ p.marker = T_marker
    /\ p.token # <<>> /\ AllIn(p.token, HEXLOWER)
    /\ p.sep = T_sep
    /\ IsStamp(p.stamp)

HasMarker(name) ==
    \E i \in 1..(Len(name) - Len(T_marker) + 1) :
        SubSeq(name, i, i + Len(T_marker) - 1) = T_marker

Last(t) == t[Len(t)]
EmptyDisk == [p \in {} |-> EmptyDir]

----------------------------------------------------------------------------
(* Vocabulary of the claims about the batch run *)

Min(a, b) == IF a < b THEN a ELSE b
Count(lines, msg) == Cardinality({i \in 1..Len(lines) : lines[i][1] = msg})
NoDuplicates(list) == \A i, j \in 1..Len(list) : list[i] = list[j] => i = j

\* The batch loop has ended and the final report is the last line printed.
BatchDone == pc = "done" /\ console # <<>> /\ Last(console)[1] = "batch complete"
Reported == Last(console)[2]
BatchStarted == Count(console, "batch start") > 0

\* A FrameRecord: the frame directory holds a manifest.
HasManifest(f) ==
    /\ FrameDir(seq.id, f) \in DOMAIN disk
    /\ SummaryFile \in DOMAIN disk[FrameDir(seq.id, f)].files

Absent(f) == f \notin DOMAIN raw_mano
LeftRaises(f) ==
    ManoLayerRaises(Get(raw_mano[f].fields, "lh__pose_coeffs"),
                    Get(raw_mano[f].fields, "lh__betas"))
RightRaises(f) ==
    ManoLayerRaises(Get(raw_mano[f].fields, "rh__pose_coeffs"),
                    Get(raw_mano[f].fields, "rh__betas"))
\* Geometry resolution succeeds for f: both hands are resolved.
GeometryResolves(f) ==
    /\ f \in DOMAIN raw_mano
    /\ raw_mano[f].isDict
    /\ ~LeftRaises(f) /\ ~RightRaises(f)
\* The capability fails for the left hand of f and would not for the right.
LeftOnlyFails(f) ==
    /\ f \in DOMAIN raw_mano
    /\ raw_mano[f].isDict
    /\ LeftRaises(f) /\ ~RightRaises(f)

WriteErrors == Count(console, "frame error: write")

----------------------------------------------------------------------------
(* Claims about the batch run *)

FrameLineMsgs == {"saved", "frame error: extraction", "frame error: write"}
RECURSIVE FrameLines(_)
FrameLines(lines) ==
    IF lines = <<>>
    THEN <<>>
    ELSE (IF Head(lines)[1] \in FrameLineMsgs THEN <<Head(lines)[2]>> ELSE <<>>)
         \o FrameLines(Tail(lines))
\* An entry leaves a line when its record is no mapping (extraction raises)
\* or its geometry resolves (it is saved, or the write raises).
LeavesLine(f) == ~Absent(f) /\ (~raw_mano[f].isDict \/ GeometryResolves(f))
RECURSIVE Attempted(_, _)
Attempted(list, k) ==
    IF k = 0
    THEN <<>>
    ELSE Attempted(list, k - 1) \o (IF LeavesLine(list[k]) THEN <<list[k]>> ELSE <<>>)

\* C2, the order: in batch mode the frames saved or failed so far are the
\* entries of frame_id_list up to the loop's position, each once, in the
\* list's order, whatever errors were caught on the way.
C2_InOrder ==
    (pc \in BatchPcs \/ BatchDone)
        => /\ idx \in 1..(Len(frame_id_list) + 1)
           /\ pc \in {"batch_save", "batch_progress"} => idx <= Len(frame_id_list)
           /\ BatchDone => idx = Len(frame_id_list) + 1
           /\ FrameLines(console)
                = Attempted(frame_id_list,
                            IF pc = "batch_progress" THEN idx ELSE idx - 1)

\* C2, the steps: a step of the batch loop other than an interrupt stays in
\* the loop unless the list is exhausted; an entry goes through extraction,
\* then storage, then the progress check, and the loop moves to the next entry
\* only from the end of that pipeline or from a caught error, which prints the
\* frame's error line.
C2_Step ==
    (pc \in BatchPcs /\ pc' # "interrupted")
        => /\ pc' \in BatchPcs \cup {"done"}
           /\ frame_id_list' = frame_id_list
           /\ pc' = "done" => (idx > Len(frame_id_list) /\ idx' = idx)
           /\ (pc = "batch" /\ idx <= Len(frame_id_list)) =>
                \/ pc' = "batch_save" /\ idx' = idx
                \/ /\ pc' = "batch" /\ idx' = idx + 1
                   /\ Last(console') = Line("frame error: extraction", frame_id_list[idx])
           /\ pc = "batch_save" =>
                \/ pc' = "batch_progress" /\ idx' = idx
                \/ /\ pc' = "batch" /\ idx' = idx + 1
                   /\ Last(console') = Line("frame error: write", frame_id_list[idx])
           /\ pc = "batch_progress" => (pc' = "batch" /\ idx' = idx + 1)

C2_ErrorsDoNotStopIteration == []C2_InOrder /\ [][C2_Step]_vars

\* A write error at the first entry and an extraction error at the second
\* were caught, and the third entry was saved.
C2_Witness ==
    /\ BatchDone
    /\ Len(frame_id_list) = 3
    /\ Count(console, "frame error: write") = 1
    /\ Count(console, "frame error: extraction") = 1
    /\ FrameLines(console) = frame_id_list
    /\ Last(SubSeq(console, 1, Len(console) - 2)) = Line("saved", frame_id_list[3])

\* C3: when the capability fails for the left hand only, the frame has no
\* geometry: nothing is written for it (no rh_* file, no lh_* file, no
\* manifest) and the success count does not move.
C3_LeftFailureDropsFrame ==
    /\ \A f \in FrameIds :
          (seq.found /\ LeftOnlyFails(f)) => FrameDir(seq.id, f) \notin DOMAIN disk
    /\ (pc \in {"batch_save", "batch_progress"} /\ LeftOnlyFails(frame_id_list[idx]))
          => (mano_data.tag = "dict" /\ ~mano_data.has3d)
    /\ (pc \in BatchPcs \/ BatchDone)
          => processed_count
               <= Cardinality({i \in 1..Min(idx, Len(frame_id_list)) :
                                  ~LeftOnlyFails(frame_id_list[i])})

\* A batch run over two entries has ended: one whose left hand fails alone,
\* with nothing on disk, and one that was written; the count is 1.
C3_Witness ==
    /\ BatchDone
    /\ Len(frame_id_list) = 2
    /\ \E i, j \in 1..2 :
          /\ LeftOnlyFails(frame_id_list[i])
          /\ FrameDir(seq.id, frame_id_list[i]) \notin DOMAIN disk
          /\ HasManifest(frame_id_list[j])
    /\ Reported = 1

\* C4: while the batch loop is on an entry that is no key of raw_mano, the
\* capability is not invoked, nothing is written and the count does not
\* move; its extraction returns the 'not present' sentinel.
C4_Step ==
    (pc \in BatchPcs /\ idx <= Len(frame_id_list) /\ Absent(frame_id_list[idx]))
        => /\ manoCalls' = manoCalls
           /\ disk' = disk
           /\ processed_count' = processed_count
           /\ (pc = "batch" /\ pc' # "interrupted")
                => (mano_data' = NoneData /\ pc' = "batch_save")

C4_AbsentFrameSkipped == [][C4_Step]_vars

\* The first entry was written, the second is absent from raw_mano and has
\* gone through extraction and the storage guard.
C4_Witness ==
    /\ pc = "batch_progress"
    /\ idx = 2
    /\ Absent(frame_id_list[2])
    /\ mano_data = NoneData
    /\ processed_count = 1
    /\ HasManifest(frame_id_list[1])

\* C9: a progress line is printed only when the count has reached a
\* positive multiple of 100, and once for each such count.
C9_ProgressOnlyAtMultiples ==
    \A i \in 1..Len(console) :
        console[i][1] = "progress"
            => /\ console[i][2] > 0
               /\ console[i][2] % ProgressInterval = 0
               /\ \A j \in 1..Len(console) :
                     (console[j][1] = "progress" /\ console[j][2] = console[i][2])
                        => j = i

\* C10: a batch run that has ended, by an interrupt too, has kept what was
\* written and has printed the final report of the count as its last line.
C10_InterruptEndsWithReport ==
    (BatchStarted /\ pc \in {"done", "interrupted"})
        => Last(console) = Line("batch complete", processed_count)

----------------------------------------------------------------------------
(* Claims about the Storage Writer *)

HasReadableManifest(dir) ==
    SummaryFile \in DOMAIN dir.files /\ dir.files[SummaryFile].valid
ManifestFiles(dir) ==
    LET entries == dir.files[SummaryFile].available_data
    IN  {entries[i].file : i \in 1..Len(entries)}
ArtifactsPresent(dir) == DOMAIN dir.files \cap ArtifactFiles

\* C5: after Storage Writer calls none of which raised, in every frame
\* location the manifest's entries name exactly the artifact files present.
C5_ManifestMatchesFiles ==
    (lastCall.made /\ lastCall.clean)
        => \A path \in DOMAIN disk :
              /\ HasReadableManifest(disk[path])
              /\ ManifestFiles(disk[path]) = ArtifactsPresent(disk[path])

\* C6: a Storage Writer call that repeats the one before it (same sequence,
\* frame and geometry), the first having returned normally, does not raise
\* unless the file system fails, and leaves every location with the same
\* files, the same array contents and a manifest that differs at most in its
\* timestamp.
SameButTimestamp(a, b) ==
    /\ a.valid = b.valid
    /\ a.sequence_id = b.sequence_id
    /\ a.frame_id = b.frame_id
    /\ a.available_data = b.available_data
C6_Step ==
    (/\ lastCall.made /\ ~lastCall.raised
     /\ writes' = writes + 1
     /\ lastCall'.seqId = lastCall.seqId
     /\ lastCall'.frame_id = lastCall.frame_id
     /\ lastCall'.data = lastCall.data
     /\ lastCall'.failAt = NoFail)
        => /\ ~lastCall'.raised
           /\ DOMAIN disk' = DOMAIN disk
           /\ \A path \in DOMAIN disk :
                 /\ DOMAIN disk'[path].files = DOMAIN disk[path].files
                 /\ \A n \in DOMAIN disk[path].files :
                       IF n = SummaryFile
                       THEN SameButTimestamp(disk'[path].files[n], disk[path].files[n])
                       ELSE disk'[path].files[n] = disk[path].files[n]

C6_RepeatedWriteIdempotent == [][C6_Step]_vars

\* The same geometry has been written twice to one location, both calls
\* returned, and the manifest carries the timestamp of the second.
C6_Witness ==
    /\ lastCall.repeat /\ ~lastCall.raised
    /\ lastCall.data.has3d
    /\ lastCall.data.coords.rh_output.present
    /\ LET dir == disk[FrameDir(lastCall.seqId, lastCall.frame_id)]
       IN  /\ HasReadableManifest(dir)
           /\ dir.files[SummaryFile].timestamp = dir.mtime
           /\ "rh_joints.npy" \in DOMAIN dir.files

\* The fixed order of the manifest: right hand before left hand and, within
\* a hand, vertices, joints, transforms_abs.
HandRank(hand) == CASE hand = "right" -> 0 [] hand = "left" -> 1 [] OTHER -> 2
KindRank(type) ==
    CASE type = "vertices" -> 0 [] type = "joints" -> 1
      [] type = "transforms_abs" -> 2 [] OTHER -> 3
EntryRank(e) == 3 * HandRank(e.hand) + KindRank(e.type)
\* '<side>_<kind>.npy', side 'rh' for hand 'right' and 'lh' for hand 'left'.
ArtifactName ==
    [right |-> [vertices |-> "rh_vertices.npy", joints |-> "rh_joints.npy",
                transforms_abs |-> "rh_transforms_abs.npy"],
     left |-> [vertices |-> "lh_vertices.npy", joints |-> "lh_joints.npy",
               transforms_abs |-> "lh_transforms_abs.npy"]]

\* C11: the manifest a Storage Writer call has written holds one entry per
\* artifact file the call wrote, the i-th entry naming the i-th file written;
\* the entries are in the order right hand before left hand and vertices,
\* joints, transforms_abs within a hand, none twice; and each entry's file is
\* '<side>_<kind>.npy' of its hand and type.
C11_ManifestListsWrittenArtifacts ==
    (lastCall.made /\ lastCall.wrote)
        => LET dir == disk[FrameDir(lastCall.seqId, lastCall.frame_id)]
               entries == dir.files[SummaryFile].available_data
           IN  /\ HasReadableManifest(dir)
               /\ Len(entries) = Len(lastCall.saved)
               /\ \A i \in 1..Len(entries) :
                     /\ entries[i].file = lastCall.saved[i]
                     /\ entries[i].hand \in DOMAIN ArtifactName
                     /\ entries[i].type \in DOMAIN ArtifactName[entries[i].hand]
                     /\ entries[i].file = ArtifactName[entries[i].hand][entries[i].type]
               /\ \A i, j \in 1..Len(entries) :
                     i < j => EntryRank(entries[i]) < EntryRank(entries[j])

\* A call wrote the three arrays of the right hand and the joints of the
\* left hand, and its manifest lists the four.
C11_Witness ==
    /\ lastCall.made /\ lastCall.wrote
    /\ lastCall.saved = <<"rh_vertices.npy", "rh_joints.npy",
                          "rh_transforms_abs.npy", "lh_joints.npy">>
    /\ Len(disk[FrameDir(lastCall.seqId, lastCall.frame_id)]
               .files[SummaryFile].available_data) = 4

----------------------------------------------------------------------------
(* Claims about the Identifier Parser *)

\* C7: for every name of the shape scene_<N>__<Letter><N>++seq__<hex-token>__
\* <timestamp> (whatever precedes or follows it), extract_sequence_id returns
\* exactly the hexadecimal token between '++seq__' and the following '__'.
C7_TokenExtracted ==
    (pc = "parsed" /\ IsShape(parts))
        => (seqResult.found /\ seqResult.id = parts.token)

\* The example of the spec: scene_01__A001++seq__1a2b3c4d__2024-01-02-03-04-05
\* has been parsed and gave 1a2b3c4d.
C7_Witness ==
    /\ pc = "parsed"
    /\ parts = [ShapedParts EXCEPT !.suffix = <<>>]
    /\ seqResult = [found |-> TRUE, id |-> T_token]

\* C8: when the selected name lacks the '++seq__' marker, or otherwise is not
\* of the expected shape, extract_sequence_id returns the absent identifier
\* (it does not raise), and main reports 'no sequence id' and ends with no
\* archive loaded and nothing written.
SelectedLacksShape ==
    /\ selected_file # <<>>
    /\ \/ ~HasMarker(basename(selected_file))
       \/ (selected_file = PathOf(parts) /\ ~IsShape(parts))
C8_NoSequenceId ==
    SelectedLacksShape
        => /\ ~seq.found
           /\ pc = "done"
           /\ Last(console) = Line("no sequence id", 0)
           /\ frame_id_list = <<>>
           /\ raw_mano = EmptyMano
           /\ disk = EmptyDisk
           /\ manoCalls = <<>>

\* A name without the marker has been selected and main has ended.
C8_Witness ==
    /\ selected_file = PathOf(UnmarkedParts)
    /\ ~HasMarker(basename(selected_file))
    /\ pc = "done"
    /\ ~seq.found

----------------------------------------------------------------------------
(* Claims about the Archive Loader *)

\* main has called load_pickle_data (line 215).
LoadAttempted == Count(console, "processing sequence") > 0
\* The three collections main holds after the load, by top-level key.
Loaded ==
    [frame_id_list |-> frame_id_list, obj_list |-> obj_list, raw_mano |-> raw_mano]
IsEmptyCollection(c) == DOMAIN c = {}

\* C12: once main has called load_pickle_data on an archive that can be
\* read, no load error is reported and each of the three collections is the
\* blob's value at its key, or empty when the blob has no such key; on an
\* archive that cannot be read the run reports 'load failed' once and ends
\* with no frame extracted, resolved or counted and nothing written.
C12_LoadDefaultsAndFailure ==
    LoadAttempted
        => IF archive.readable
           THEN /\ Count(console, "load failed") = 0
                /\ \A k \in TopKeys :
                      IF k \in archive.keys
                      THEN Loaded[k] = archive[k]
                      ELSE IsEmptyCollection(Loaded[k])
           ELSE /\ Count(console, "load failed") = 1
                /\ Last(console) = Line("load failed", 0)
                /\ pc = "done"
                /\ ~BatchStarted /\ prompts = 0
                /\ FrameLines(console) = <<>>
                /\ manoCalls = <<>>
                /\ processed_count = 0
                /\ disk = EmptyDisk

\* An archive that holds raw_mano only was loaded and run in batch mode:
\* the frame list is empty and nothing is processed.
C12_Witness ==
    /\ BatchDone
    /\ archive.readable
    /\ archive.keys = {"raw_mano"}
    /\ raw_mano = archive.raw_mano /\ DOMAIN raw_mano # {}
    /\ frame_id_list = <<>> /\ obj_list = <<>>
    /\ Reported = 0

----------------------------------------------------------------------------
(* Claims about the interactive mode *)

\* The answer is no usable frame identifier: it is no number, or a number
\* that is not an entry of frame_id_list.
Rejected(answer) ==
    answer # Quit /\ (answer = NotANumber \/ answer \notin Range(frame_id_list))

\* C13: at an answer of the interactive prompt, an answer that is no number
\* or is not in frame_id_list is reported with one line and leaves the
\* extracted data, the capability calls and the storage tree as they were,
\* the loop staying at the prompt; whatever is extracted, resolved or
\* written at a prompt is for an answer that is in frame_id_list; and an
\* answer ends the loop only when it is the quit token.
C13_Step ==
    (pc = "prompt" /\ prompts' = prompts + 1)
        => /\ Rejected(user_input') =>
                /\ pc' = "prompt"
                /\ mano_data' = mano_data
                /\ manoCalls' = manoCalls
                /\ disk' = disk
                /\ console' = console \o
                      <<IF user_input' = NotANumber
                        THEN Line("ERROR", 0)
                        ELSE Line("invalid frame ID", user_input')>>
           /\ (mano_data' # mano_data \/ manoCalls' # manoCalls \/ disk' # disk)
                => user_input' \in Range(frame_id_list)
           /\ pc' = "done" <=> user_input' = Quit
           /\ processed_count' = processed_count
C13_InteractiveValidation == [][C13_Step]_vars

\* Frame 1 was written at the first prompt; the second answer, 3, is not in
\* the list [1, 2]: it is reported and the loop is at the prompt again.
C13_Witness ==
    /\ pc = "prompt"
    /\ prompts = 2
    /\ frame_id_list = <<1>>
    /\ user_input = 3
    /\ Last(console) = Line("invalid frame ID", 3)
    /\ HasManifest(1)
    /\ DOMAIN disk = {FrameDir(seq.id, 1)}

----------------------------------------------------------------------------
(* Claims about the Hierarchy Walker *)

\* A frame location: a subdirectory named by the frame-key convention,
\* frame_<number>.
IsFrameKey(name) ==
    /\ StartsWith(name, T_frame)
    /\ IsNumber(SubSeq(name, Len(T_frame) + 1, Len(name)))
FrameLocations == {n \in Subdirs(disk, WalkerSeq) : IsFrameKey(n)}
\* The frames reported so far, in order (the text printed after "frame").
RECURSIVE ReportedFrames(_)
ReportedFrames(lines) ==
    IF lines = <<>>
    THEN <<>>
    ELSE (IF Head(lines).msg = "frame" THEN <<Head(lines).frame>> ELSE <<>>)
         \o ReportedFrames(Tail(lines))
\* The lines printed for the i-th reported frame, up to the next frame line.
FramePositions(lines) == {i \in 1..Len(lines) : lines[i].msg = "frame"}
BlockOf(lines, i) ==
    LET later == {j \in FramePositions(lines) : j > i}
        end == IF later = {} THEN Len(lines)
               ELSE (CHOOSE j \in later : \A k \in later : j <= k) - 1
    IN  SubSeq(lines, i, end)
HasLine(block, msg) == \E i \in 1..Len(block) : block[i].msg = msg

\* C14: when the frame listing of a sequence directory that exists has
\* ended, every frame location under it has been reported once, in ascending
\* numeric order of frame identifier, and the report of a location without
\* artifact files says so (a count of 0), of one without a manifest or with
\* an unreadable one carries the matching diagnostic.
C14_WalkerListsEveryFrame ==
    (pc \in {"walked", "walk_raised"} /\ SeqDirExists(disk, WalkerSeq))
        => LET reported == ReportedFrames(console)
           IN  /\ Len(reported) = Cardinality(FrameLocations)
               /\ {T_frame \o reported[i] : i \in 1..Len(reported)} = FrameLocations
               /\ \A i, j \in 1..Len(reported) :
                     i < j => Value(reported[i]) < Value(reported[j])
               /\ \A i \in FramePositions(console) :
                     LET dir == disk[<<base_dir, WalkerSeq, T_frame \o console[i].frame>>]
                         block == BlockOf(console, i)
                     IN  /\ block[2].msg = "npy files"
                         /\ block[2].count = Cardinality(NpyFiles(dir))
                         /\ SummaryFile \notin DOMAIN dir.files
                               => HasLine(block, "no summary")
                         /\ (SummaryFile \in DOMAIN dir.files
                              /\ ~dir.files[SummaryFile].valid)
                               => HasLine(block, "cannot read summary")

----------------------------------------------------------------------------
(* Claims about the Parameter Extractor *)

\* C15, the call: extract_mano_data leaves the mapping passed to it, and so
\* each of its records, as it was, whether the identifier is present or not
\* and whether or not the geometry is resolved; the geometry is in the result
\* exactly when it was resolved.
C15_Step ==
    pc = "extractor"
        => /\ raw_mano' = raw_mano
           /\ pc' = "extracted" =>
                (mano_data'.has3d <=> GeometryResolves(frame_id_list[idx]))
\* C15, the result: it is the sentinel exactly for an identifier that is not
\* in the mapping; for one present with its six fields None it is a mapping
\* of six None fields without geometry.
C15_Sentinel ==
    pc = "extracted"
        => LET f == frame_id_list[idx]
           IN  /\ mano_data.tag = "none" <=> Absent(f)
               /\ (~Absent(f) /\ raw_mano[f] = AllNullRecord)
                     => /\ mano_data.tag = "dict"
                        /\ \A k \in FieldNames : mano_data.fields[k] = NULL
                        /\ ~mano_data.has3d
C15_ExtractorLeavesRawMano == []C15_Sentinel /\ [][C15_Step]_vars

\* The geometry of a frame was resolved and is in the result; the frame's
\* record still has its six fields only, and a record of None fields is in
\* the mapping as it was.
C15_Witness ==
    /\ pc = "extracted"
    /\ mano_data.has3d
    /\ DOMAIN raw_mano[frame_id_list[idx]].fields = FieldNames
    /\ \E g \in DOMAIN raw_mano : raw_mano[g] = AllNullRecord

----------------------------------------------------------------------------
(* Claims about duplicated frame identifiers *)

\* How often f occurs in the archive's frame list, and what the run shows
\* for f: the lines of its completed and of its failed writes, and the
\* capability calls made with its parameters (two per resolution).
Occurrences(f) ==
    Cardinality({i \in 1..Len(archive.frame_id_list) : archive.frame_id_list[i] = f})
SavedFor(f) == Cardinality({i \in 1..Len(console) : console[i] = Line("saved", f)})
WriteErrorsFor(f) ==
    Cardinality({i \in 1..Len(console) : console[i] = Line("frame error: write", f)})
ResolveCallsFor(f) ==
    Cardinality({i \in 1..Len(manoCalls) : manoCalls[i].pose = f})
ResolvedEntries ==
    {i \in 1..Len(archive.frame_id_list) : GeometryResolves(archive.frame_id_list[i])}
HasListKey == archive.readable /\ "frame_id_list" \in archive.keys

\* C16: frame identifiers are processed per occurrence.  A frame that
\* resolves and is listed k times is extracted and resolved k times and a
\* write is started for it k times, all to the one location of the frame; the
\* final count is the number of writes that completed.  When the file system
\* failed no write of the run, the frame is written and counted k times, the
\* count is the number of entries of the list that resolve, and it is at
\* least the number of FrameRecords, which is the number of distinct
\* identifiers that resolve.
C16_PerOccurrence ==
    (BatchDone /\ HasListKey)
        => /\ \A f \in FrameIds :
                (Occurrences(f) >= 1 /\ GeometryResolves(f))
                    => /\ ResolveCallsFor(f) = 2 * Occurrences(f)
                       /\ SavedFor(f) + WriteErrorsFor(f) = Occurrences(f)
           /\ Reported = Count(console, "saved")
           /\ DOMAIN disk \subseteq {FrameDir(seq.id, f) : f \in FrameIds}
           /\ WriteErrors = 0 =>
                /\ \A f \in FrameIds :
                      (Occurrences(f) >= 1 /\ GeometryResolves(f))
                          => (SavedFor(f) = Occurrences(f) /\ HasManifest(f))
                /\ Reported = Cardinality(ResolvedEntries)
                /\ Cardinality(DOMAIN disk)
                      = Cardinality({archive.frame_id_list[i] : i \in ResolvedEntries})
                /\ Reported >= Cardinality(DOMAIN disk)

\* The list [1, 2, 1] with both frames resolving: three writes, a count of
\* 3 and two FrameRecords.
C16_Witness ==
    /\ BatchDone
    /\ archive.frame_id_list = <<1, 2, 1>>
    /\ WriteErrors = 0
    /\ SavedFor(1) = 2 /\ SavedFor(2) = 1
    /\ Reported = 3
    /\ Cardinality(DOMAIN disk) = 2

====
